---- MODULE Spec2Model ----
(***************************************************************************)
(* Weather data ingestion pipeline: the retrying fetch (src/utils.py), the  *)
(* date window (src/utils.py), the pydantic data contract (src/models.py),  *)
(* the orchestration loop (src/ingestion.py) and the Lambda entry point     *)
(* (src/lambda_handler.py).                                                 *)
(*                                                                          *)
(* Conventions.  An Optional value is a sequence: None is << >>, a value x  *)
(* is <<x>>.  Floating point quantities (coordinates, metric values) are    *)
(* integers; every comparison of the source is against an integer literal.  *)
(* An exception is a record [type, msg]; NoExc stands for "nothing raised". *)
(***************************************************************************)
EXTENDS Integers, Sequences, FiniteSets, TLC

VARIABLES
    \* ---- fetch_api_with_retry (utils.py) ----
    fpc,            \* position: "idle" | "attempt" | "except" | "returned" | "raised"
    max_retries,    \* parameter max_retries
    attempt,        \* loop variable of `for attempt in range(1, max_retries + 1)`
    http_plan,      \* what the HTTP layer answers to the successive GETs of this fetch
    http_body,      \* the JSON body of the 2xx answer
    caught,         \* the RequestException bound to `e` in the except clause
    fetch_result,   \* Optional: the value returned
    fetch_exc,      \* exception leaving fetch_api_with_retry
    \* ---- constructing a model directly (models.py, as the tests do) ----
    mpc,            \* "idle" | "input" | "done"
    kwargs,         \* the payload handed to the constructor
    result,         \* [ok, model, errors] of the construction; `of`: which class
    \* ---- main (ingestion.py) ----
    pc,             \* "idle" | "start" | "loop" | "fetching" | "validate" | "save"
                    \* | "pace" | "returned" | "raised"
    CITIES,         \* config.CITIES
    is_lambda,      \* AWS_LAMBDA_FUNCTION_NAME is set
    bucket_name,    \* Optional: S3_BUCKET_NAME
    ingestion_timestamp,
    city_ix,        \* index in CITIES of the loop variable `city`, 0 before the loop
    raw_data,       \* Optional payload returned by the fetch
    validated,      \* Optional model returned by validate_data
    success_count,
    failure_count,
    exc,            \* exception leaving main
    summary,        \* Optional: the dict main returns
    sink,           \* artifacts stored so far, in order
    \* ---- get_date_range (utils.py) ----
    dpc,            \* "idle" | "call" | "returned" | "raised"
    today,          \* datetime.now().date(): [year, month, day]
    days,           \* parameter days
    date_range,     \* Optional: the pair (start_date, end_date) returned
    date_exc,       \* exception leaving get_date_range
    \* ---- lambda_handler (lambda_handler.py) ----
    hpc,            \* "idle" | "invoked" | "running" | "returned" | "raised"
    lambda_event,   \* the event Lambda passes in
    response,       \* Optional: the dict lambda_handler returns
    handler_exc,    \* exception leaving lambda_handler
    \* ---- observable history ----
    trace,          \* ordered events: GET issued, sleeps, validate, save
    upstream,       \* per location reached, how the upstream API behaves for it:
                    \* "exhausts" | "invalid" | "valid"
    log             \* ordered log records <<level, event, n>>

fetchVars == <<fpc, max_retries, attempt, http_plan, http_body, caught,
               fetch_result, fetch_exc>>
modelVars == <<mpc, kwargs, result>>
envVars   == <<CITIES, is_lambda, bucket_name>>
mainVars  == <<pc, ingestion_timestamp, city_ix, raw_data, validated,
               success_count, failure_count, exc, summary, sink>>
histVars  == <<trace, upstream, log>>
dateVars  == <<dpc, today, days, date_range, date_exc>>
lambdaVars == <<hpc, lambda_event, response, handler_exc>>
vars      == <<fetchVars, modelVars, envVars, mainVars, histVars, dateVars, lambdaVars>>

(***************************************************************************)
(* Bounds of the model.                                                     *)
(***************************************************************************)
MaxAttempts == 3
MaxLen == 2
MaxCities == 3
MaxLookback == 3
MaxSaves == 2

(***************************************************************************)
(* config.py                                                                *)
(***************************************************************************)
MAX_RETRIES == 3
DELAY_BETWEEN_CITIES == 1
HISTORY_DAYS == 30

(***************************************************************************)
(* Values.                                                                  *)
(***************************************************************************)
None == << >>
Some(x) == <<x>>
IsNone(o) == Len(o) = 0
Get(o) == o[1]

NoExc == [type |-> "none", msg |-> ""]
TypeErrorConcat == [type |-> "TypeError", msg |-> "can only concatenate str (not set) to str"]

\* One event of the observable history.
\*   op:   "get" (rq.get called), "backoff_sleep" and "pace_sleep" (time.sleep
\*         called), "validate" (validate_data called), "save" (save_raw_data
\*         called), "stored" (save_raw_data returned)
\*   city: index into CITIES (0 outside main)
\*   arg:  attempt number or duration
\*   data: Optional, the payload passed to save_raw_data
Event(op, city, arg) == [op |-> op, city |-> city, arg |-> arg, data |-> None]
SaveEvent(city, data) == [op |-> "save", city |-> city, arg |-> 0, data |-> Some(data)]

\* Outcomes of rq.get + raise_for_status + json for one call.
FailKinds == {"HTTPError", "ConnectionError", "Timeout"}
Outcomes  == {"ok"} \cup FailKinds

\* Python: the result type of  <left> + <right>  for the operand types used.
PyAdd(ltype, rtype) ==
    IF ltype = "str" /\ rtype = "str" THEN "str" ELSE "TypeError"

\* utils.py:37  f"Retries {attempt/max_retries} failed: " + {e}
\* The right operand {e} is a set display, so the message is never built.
RetryMessage == PyAdd("str", "set")

RECURSIVE SeqsOfLen(_, _)
SeqsOfLen(S, n) ==
    IF n = 0 THEN { << >> }
    ELSE { Append(s, x) : s \in SeqsOfLen(S, n - 1), x \in S }

SeqsUpTo(S, n) == UNION { SeqsOfLen(S, k) : k \in 0..n }

(***************************************************************************)
(* models.py: the data contract.                                            *)
(*                                                                          *)
(* A payload is the record the upstream JSON decodes to.  Payloads here are *)
(* structurally well typed (every field present, sequences of numbers or    *)
(* strings), so construction can fail only in the validators written in     *)
(* models.py.  A construction yields [ok, model, errors]: errors is the     *)
(* list ValidationError.errors() reports, in field order.                   *)
(***************************************************************************)
HOURLY_METRICS ==
    <<"temperature_2m", "relative_humidity_2m", "weather_code",
      "wind_speed_10m", "precipitation">>

HourlyFields == <<"time">> \o HOURLY_METRICS

\* One entry of ValidationError.errors().  loc: path of the field; type: the
\* pydantic error type; msg: the fixed text of the message; the remaining
\* fields are the values the message interpolates.
ErrorEntry(loc, type, msg, value, lo, hi, lengths, got) ==
    [loc |-> loc, type |-> type, msg |-> msg, value |-> value,
     lo |-> lo, hi |-> hi, lengths |-> lengths, got |-> got]

\* raise ValueError(f"<label> {value}<unit> out of valid range (<lo> to <hi>)")
RangeError(field, label, value, lo, hi) ==
    ErrorEntry(<<field>>, "value_error", label \o " out of valid range",
               value, lo, hi, {}, "")

\* raise ValueError(f"Mismatched array lengths: {lengths}")
LengthError(lengths) ==
    ErrorEntry(<< >>, "value_error", "Mismatched array lengths",
               0, 0, 0, lengths, "")

\* raise ValueError(f"Expected GMT, but got {value}")
GmtError(field, value) ==
    ErrorEntry(<<field>>, "value_error", "Expected GMT, but got",
               0, 0, 0, {}, value)

\* Field(ge=..., le=...): pydantic's own greater_than_equal / less_than_equal
BoundError(field, type, value, limit) ==
    ErrorEntry(<<field>>, type,
               IF type = "greater_than_equal"
               THEN "Input should be greater than or equal to"
               ELSE "Input should be less than or equal to",
               value, limit, limit, {}, "")

\* An instance of a model class: its fields and the class it belongs to (a
\* payload is a plain dict and carries no class).
Instance(cls, fields) == [cls |-> cls] @@ fields

Valid(model)    == [ok |-> TRUE,  model |-> Some(model), errors |-> << >>, of |-> ""]
Invalid(errors) == [ok |-> FALSE, model |-> None,        errors |-> errors, of |-> ""]

\* `for v in values: if not lo <= v <= hi: raise ...`: the index of the value
\* that raises, 0 when the loop runs to its end.
RECURSIVE FirstOutside(_, _, _, _)
FirstOutside(values, lo, hi, i) ==
    IF i > Len(values) THEN 0
    ELSE IF ~(lo <= values[i] /\ values[i] <= hi) THEN i
    ELSE FirstOutside(values, lo, hi, i + 1)

\* Mutation: the bounds taken as exclusive (-60 < temp < 60).
check_temperature_range_exclusive(temps) ==
    LET bad == { i \in 1..Len(temps) : ~(-60 < temps[i] /\ temps[i] < 60) }
        first == CHOOSE i \in bad : \A j \in bad : i <= j
    IN  IF bad = {} THEN << >>
        ELSE << RangeError("temperature_2m", "Temperature", temps[first], -60, 60) >>

check_temperature_range(temps) ==
    LET i == FirstOutside(temps, -60, 60, 1)
    IN  IF i = 0 THEN << >>
        ELSE << RangeError("temperature_2m", "Temperature", temps[i], -60, 60) >>

check_humidity_range(values) ==
    LET i == FirstOutside(values, 0, 100, 1)
    IN  IF i = 0 THEN << >>
        ELSE << RangeError("relative_humidity_2m", "Humidity", values[i], 0, 100) >>

check_weather_code_range(values) ==
    LET i == FirstOutside(values, 0, 99, 1)
    IN  IF i = 0 THEN << >>
        ELSE << RangeError("weather_code", "Weather code", values[i], 0, 99) >>

check_wind_speed_range(values) ==
    LET i == FirstOutside(values, 0, 400, 1)
    IN  IF i = 0 THEN << >>
        ELSE << RangeError("wind_speed_10m", "Wind speed", values[i], 0, 400) >>

check_precipitation_range(values) ==
    LET i == FirstOutside(values, 0, 500, 1)
    IN  IF i = 0 THEN << >>
        ELSE << RangeError("precipitation", "Precipitation", values[i], 0, 500) >>

\* Mutation: the lengths taken over the metrics only, `time` left out.
check_metric_lengths_only(h) ==
    LET lengths == { Len(h[HOURLY_METRICS[k]]) : k \in 1..Len(HOURLY_METRICS) }
    IN  IF Cardinality(lengths) > 1 THEN << LengthError(lengths) >> ELSE << >>

\* lengths = {len(v) for v in data_dict.values() if isinstance(v, list)}
\* if len(lengths) > 1: raise ValueError(...)
check_all_length_is_match(h) ==
    LET lengths == { Len(h[HourlyFields[k]]) : k \in 1..Len(HourlyFields) }
    IN  IF Cardinality(lengths) > 1 THEN << LengthError(lengths) >> ELSE << >>

\* Mutation: the length check made first (mode='before'), the field validators
\* only when it passed.
HourlyData_lengths_first(h) ==
    LET modelErrors == check_all_length_is_match(h)
    IN  IF modelErrors # << >> THEN Invalid(modelErrors)
        ELSE LET fieldErrors ==
                     check_temperature_range(h.temperature_2m)
                     \o check_humidity_range(h.relative_humidity_2m)
                     \o check_weather_code_range(h.weather_code)
                     \o check_wind_speed_range(h.wind_speed_10m)
                     \o check_precipitation_range(h.precipitation)
             IN  IF fieldErrors # << >> THEN Invalid(fieldErrors)
                 ELSE Valid(Instance("HourlyData", h))

\* Mutation: a payload without any data point is refused.
HourlyData_nonempty(h) ==
    LET fieldErrors ==
            check_temperature_range(h.temperature_2m)
            \o check_humidity_range(h.relative_humidity_2m)
            \o check_weather_code_range(h.weather_code)
            \o check_wind_speed_range(h.wind_speed_10m)
            \o check_precipitation_range(h.precipitation)
    IN  IF fieldErrors # << >> THEN Invalid(fieldErrors)
        ELSE LET modelErrors == check_all_length_is_match(h)
             IN  IF modelErrors # << >> THEN Invalid(modelErrors)
                 ELSE IF Len(h.time) = 0 THEN Invalid(<< LengthError({0}) >>)
                 ELSE Valid(Instance("HourlyData", h))

\* HourlyData(**h).  The field validators of every field run and their errors
\* are collected; the mode='after' model validator runs on the constructed
\* instance, that is only when no field failed.
HourlyData(h) ==
    LET fieldErrors ==
            check_temperature_range(h.temperature_2m)
            \o check_humidity_range(h.relative_humidity_2m)
            \o check_weather_code_range(h.weather_code)
            \o check_wind_speed_range(h.wind_speed_10m)
            \o check_precipitation_range(h.precipitation)
    IN  IF fieldErrors # << >> THEN Invalid(fieldErrors)
        ELSE LET modelErrors == check_all_length_is_match(h)
             IN  IF modelErrors # << >> THEN Invalid(modelErrors)
                 ELSE Valid(Instance("HourlyData", h))

\* latitude: Annotated[float, Field(ge=-90, le=90)]
check_latitude(v) ==
    IF ~(v >= -90) THEN << BoundError("latitude", "greater_than_equal", v, -90) >>
    ELSE IF ~(v <= 90) THEN << BoundError("latitude", "less_than_equal", v, 90) >>
    ELSE << >>

\* longitude: Annotated[float, Field(ge=-180, le=180)]
check_longitude(v) ==
    IF ~(v >= -180) THEN << BoundError("longitude", "greater_than_equal", v, -180) >>
    ELSE IF ~(v <= 180) THEN << BoundError("longitude", "less_than_equal", v, 180) >>
    ELSE << >>

\* Mutation: the comparison made without regard to case.
is_gmt_timezone_caseless(field, value) ==
    IF value \notin {"GMT", "gmt"} THEN << GmtError(field, value) >> ELSE << >>

\* if value != 'GMT': raise ValueError(f"Expected GMT, but got {value}")
is_gmt_timezone(field, value) ==
    IF value # "GMT" THEN << GmtError(field, value) >> ELSE << >>

\* The errors of a nested model are reported under the parent's field name.
Nested(field, errors) ==
    [k \in 1..Len(errors) |-> [errors[k] EXCEPT !.loc = <<field>> \o @]]

\* Mutation: validation stops at the first field that fails.
WeatherAPIResponse_first_error(raw_json) ==
    LET hourly == HourlyData(raw_json.hourly)
        errors ==
            check_latitude(raw_json.latitude)
            \o check_longitude(raw_json.longitude)
            \o is_gmt_timezone("timezone", raw_json.timezone)
            \o is_gmt_timezone("timezone_abbreviation", raw_json.timezone_abbreviation)
            \o Nested("hourly", hourly.errors)
    IN  IF errors # << >> THEN Invalid(<< errors[1] >>)
        ELSE Valid(Instance("WeatherAPIResponse",
                            [raw_json EXCEPT !.hourly = Get(hourly.model),
                                             !.hourly_units = Instance("HourlyUnitData", @)]))

\* WeatherAPIResponse(**raw_json): every field is validated, in declaration
\* order, and all errors are collected.
WeatherAPIResponse(raw_json) ==
    LET hourly == HourlyData(raw_json.hourly)
        errors ==
            check_latitude(raw_json.latitude)
            \o check_longitude(raw_json.longitude)
            \o is_gmt_timezone("timezone", raw_json.timezone)
            \o is_gmt_timezone("timezone_abbreviation", raw_json.timezone_abbreviation)
            \o Nested("hourly", hourly.errors)
    IN  IF errors # << >> THEN Invalid(errors)
        ELSE Valid(Instance("WeatherAPIResponse",
                            [raw_json EXCEPT !.hourly = Get(hourly.model),
                                             !.hourly_units = Instance("HourlyUnitData", @)]))

(***************************************************************************)
(* Payloads the checks feed to the contract.  The well-formed payload and   *)
(* the offending values are those of tests/test_models.py.                  *)
(***************************************************************************)
InValue(f) ==
    CASE f = "temperature_2m"       -> 20
      [] f = "relative_humidity_2m" -> 50
      [] f = "weather_code"         -> 1
      [] f = "wind_speed_10m"       -> 10
      [] f = "precipitation"        -> 0

OutValue(f) ==
    CASE f = "temperature_2m"       -> 100
      [] f = "relative_humidity_2m" -> 110
      [] f = "weather_code"         -> 105
      [] f = "wind_speed_10m"       -> -5
      [] f = "precipitation"        -> 600

\* Values at and just outside both ends of each range.
RangeProbes(f) ==
    CASE f = "temperature_2m"       -> {-61, -60, 60, 61}
      [] f = "relative_humidity_2m" -> {-1, 0, 100, 101}
      [] f = "weather_code"         -> {-1, 0, 99, 100}
      [] f = "wind_speed_10m"       -> {-1, 0, 400, 401}
      [] f = "precipitation"        -> {-1, 0, 500, 501}

TimeSeq(n) == [i \in 1..n |-> "2024-01-01T00:00"]

\* n values of metric f, all in range except, when bad, the last one.
MetricSeq(f, n, bad) ==
    [i \in 1..n |-> IF bad /\ i = n THEN OutValue(f) ELSE InValue(f)]

Shapes == { sh \in (0..MaxLen) \X BOOLEAN : sh[2] => sh[1] >= 1 }

HourlyOf(nt, t, h, c, w, p) ==
    [time                 |-> TimeSeq(nt),
     temperature_2m       |-> MetricSeq("temperature_2m", t[1], t[2]),
     relative_humidity_2m |-> MetricSeq("relative_humidity_2m", h[1], h[2]),
     weather_code         |-> MetricSeq("weather_code", c[1], c[2]),
     wind_speed_10m       |-> MetricSeq("wind_speed_10m", w[1], w[2]),
     precipitation        |-> MetricSeq("precipitation", p[1], p[2])]

GoodHourly(n) ==
    HourlyOf(n, <<n, FALSE>>, <<n, FALSE>>, <<n, FALSE>>, <<n, FALSE>>, <<n, FALSE>>)

\* Every combination of six lengths, each metric with or without an offending value.
ShapedHourly ==
    { HourlyOf(nt, t, h, c, w, p) :
        nt \in 0..MaxLen, t \in Shapes, h \in Shapes, c \in Shapes,
        w \in Shapes, p \in Shapes }

\* One metric holding any sequence of boundary values, the rest well formed.
ProbedHourly ==
    UNION { { [GoodHourly(Len(s)) EXCEPT ![HOURLY_METRICS[k]] = s] :
                s \in SeqsUpTo(RangeProbes(HOURLY_METRICS[k]), MaxLen) } :
            k \in 1..Len(HOURLY_METRICS) }

HourlyUnits ==
    [time |-> "iso8601", temperature_2m |-> "C", relative_humidity_2m |-> "%",
     weather_code |-> "wmo code", wind_speed_10m |-> "km/h", precipitation |-> "mm"]

Payload(lat, lon, tz, abbr, hourly) ==
    [latitude |-> lat, longitude |-> lon, generationtime_ms |-> 0,
     utc_offset_seconds |-> 0, timezone |-> tz, timezone_abbreviation |-> abbr,
     elevation |-> 38, hourly_units |-> HourlyUnits, hourly |-> hourly]

GoodPayload(hourly) == Payload(52, 13, "GMT", "GMT", hourly)

MismatchedHourly == [GoodHourly(2) EXCEPT !.temperature_2m = <<20>>]
HotHourly        == [GoodHourly(1) EXCEPT !.temperature_2m = <<150>>]
StormHourly      == [GoodHourly(1) EXCEPT !.wind_speed_10m = <<-5>>,
                                          !.precipitation = <<600>>]

EnvelopePayloads ==
    { Payload(lat, lon, tz, abbr, hourly) :
        lat \in {-91, -90, 0, 90, 91}, lon \in {-181, -180, 0, 180, 181},
        tz \in {"GMT", "PST", "UTC"}, abbr \in {"GMT", "EST", "gmt"},
        hourly \in {GoodHourly(1), MismatchedHourly, HotHourly, StormHourly} }

ModelInputs ==
    { GoodPayload(hourly) : hourly \in ShapedHourly \cup ProbedHourly }
    \cup EnvelopePayloads

\* What the upstream API answers with in a run of the pipeline.
PayloadSamples ==
    { GoodPayload(GoodHourly(2)), GoodPayload(MismatchedHourly),
      GoodPayload(HotHourly), Payload(52, 13, "PST", "GMT", GoodHourly(2)) }

(***************************************************************************)
(* config.py: the locations.  A name is its sequence of characters, so that *)
(* lower() and replace() act on it; coordinates are rounded to integers.    *)
(***************************************************************************)
City(name, latitude, longitude, country) ==
    [name |-> name, latitude |-> latitude, longitude |-> longitude,
     country |-> country]

NewYork   == City(<<"N","e","w"," ","Y","o","r","k">>, 41, -74, "USA")
Singapore == City(<<"S","i","n","g","a","p","o","r","e">>, 1, 104, "Singapore")
Tokyo     == City(<<"T","o","k","y","o">>, 36, 140, "Japan")

ConfiguredCities == <<NewYork, Singapore, Tokyo>>

\* The configurations explored: every list of at most MaxCities configured locations.
CityLists == SeqsUpTo({NewYork, Singapore, Tokyo}, MaxCities)

(***************************************************************************)
(* utils.py: fetch_api_with_retry                                           *)
(***************************************************************************)
LogRecord(level, event, n) == <<level, event, n>>

\* Lines 31-35 and 47: the loop head, one GET, raise_for_status, json.
FetchAttempt ==
    /\ fpc = "attempt"
    /\ IF attempt + 1 > max_retries
       THEN \* range exhausted without a return: line 47
            /\ fpc' = "returned"
            /\ fetch_result' = None
            /\ UNCHANGED <<attempt, caught, trace>>
       ELSE /\ attempt' = attempt + 1
            /\ trace' = Append(trace, Event("get", city_ix, attempt + 1))
            /\ IF http_plan[attempt + 1] = "ok"
               THEN /\ fpc' = "returned"
                    /\ fetch_result' = Some(http_body)
                    /\ UNCHANGED caught
               ELSE /\ fpc' = "except"
                    /\ caught' = http_plan[attempt + 1]
                    /\ UNCHANGED fetch_result
    /\ UNCHANGED <<max_retries, http_plan, http_body, fetch_exc, log, upstream>>
    /\ UNCHANGED <<modelVars, envVars, mainVars, dateVars, lambdaVars>>

\* Lines 36-46: the except clause.
FetchExcept ==
    /\ fpc = "except"
    /\ IF RetryMessage = "TypeError"
       THEN \* the argument of logger.info raises inside the handler
            /\ fpc' = "raised"
            /\ fetch_exc' = TypeErrorConcat
            /\ UNCHANGED <<fetch_result, trace, log>>
       ELSE IF attempt < max_retries
       THEN /\ log' = log \o << LogRecord("INFO", "retries failed", attempt),
                                LogRecord("INFO", "retrying in", 2 ^ attempt) >>
            /\ trace' = Append(trace, Event("backoff_sleep", city_ix, 2 ^ attempt))
            /\ fpc' = "attempt"
            /\ UNCHANGED <<fetch_result, fetch_exc>>
       ELSE /\ log' = log \o << LogRecord("INFO", "retries failed", attempt),
                                LogRecord("CRITICAL", "all retries failed", attempt) >>
            /\ fpc' = "returned"
            /\ fetch_result' = None
            /\ UNCHANGED <<fetch_exc, trace>>
    /\ UNCHANGED <<max_retries, attempt, http_plan, http_body, caught, upstream>>
    /\ UNCHANGED <<modelVars, envVars, mainVars, dateVars, lambdaVars>>

(***************************************************************************)
(* models.py: constructing the models directly.                             *)
(***************************************************************************)
ConstructHourlyData ==
    /\ mpc = "input"
    /\ mpc' = "done"
    /\ result' = [HourlyData(kwargs.hourly) EXCEPT !.of = "HourlyData"]
    /\ UNCHANGED kwargs
    /\ UNCHANGED <<fetchVars, envVars, mainVars, histVars, dateVars, lambdaVars>>

ConstructWeatherAPIResponse ==
    /\ mpc = "input"
    /\ mpc' = "done"
    /\ result' = [WeatherAPIResponse(kwargs) EXCEPT !.of = "WeatherAPIResponse"]
    /\ UNCHANGED kwargs
    /\ UNCHANGED <<fetchVars, envVars, mainVars, histVars, dateVars, lambdaVars>>

(***************************************************************************)
(* utils.py: get_date_range.  A date is [year, month, day]; the arithmetic  *)
(* of datetime.date and timedelta goes through proleptic Gregorian          *)
(* ordinals, day 1 being 0001-01-01.                                        *)
(***************************************************************************)
Date(y, m, d) == [year |-> y, month |-> m, day |-> d]

DAYS_IN_MONTH == <<31, 28, 31, 30, 31, 30, 31, 31, 30, 31, 30, 31>>
DAYS_BEFORE_MONTH == <<0, 31, 59, 90, 120, 151, 181, 212, 243, 273, 304, 334>>

is_leap(y) == y % 4 = 0 /\ (y % 100 # 0 \/ y % 400 = 0)

days_before_year(y) ==
    LET y1 == y - 1
    IN  y1 * 365 + (y1 \div 4) - (y1 \div 100) + (y1 \div 400)

days_before_month(y, m) ==
    DAYS_BEFORE_MONTH[m] + (IF m > 2 /\ is_leap(y) THEN 1 ELSE 0)

\* date.toordinal()
ymd2ord(d) == days_before_year(d.year) + days_before_month(d.year, d.month) + d.day

\* date.fromordinal(n)
ord2ymd(n) ==
    LET n0   == n - 1
        n400 == n0 \div 146097
        r400 == n0 % 146097
        n100 == r400 \div 36524
        r100 == r400 % 36524
        n4   == r100 \div 1461
        r4   == r100 % 1461
        n1   == r4 \div 365
        r1   == r4 % 365
        y    == n400 * 400 + 1 + n100 * 100 + n4 * 4 + n1
        leapyear == n1 = 3 /\ (n4 # 24 \/ n100 = 3)
        m0   == (r1 + 50) \div 32
        p0   == DAYS_BEFORE_MONTH[m0] + (IF m0 > 2 /\ leapyear THEN 1 ELSE 0)
        m    == IF p0 > r1 THEN m0 - 1 ELSE m0
        p    == IF p0 > r1
                THEN p0 - (DAYS_IN_MONTH[m] + (IF m = 2 /\ leapyear THEN 1 ELSE 0))
                ELSE p0
    IN  IF n1 = 4 \/ n100 = 4
        THEN Date(y - 1, 12, 31)
        ELSE Date(y, m, r1 - p + 1)

OverflowErrorDate == [type |-> "OverflowError", msg |-> "date value out of range"]

\* <date> - timedelta(days=n): [raised, value].  timedelta accepts at most
\* 999999999 days either way; the result must lie in date.min..date.max.
date_minus_days(d, n) ==
    LET o == ymd2ord(d) - n
    IN  IF n > 999999999 \/ n < -999999999 \/ o < 1 \/ o > 3652059
        THEN [raised |-> OverflowErrorDate, value |-> None]
        ELSE [raised |-> NoExc, value |-> Some(ord2ymd(o))]

\* date.isoformat(): 'YYYY-MM-DD', held as its three zero-padded fields.
isoformat(d) == <<d.year, d.month, d.day>>

\* Mutation: the window ends today.
get_date_range_ending_today(n, now) ==
    LET s == date_minus_days(now, n)
    IN  IF s.raised # NoExc
        THEN [raised |-> s.raised, value |-> None]
        ELSE [raised |-> NoExc,
              value  |-> Some(<<isoformat(Get(s.value)), isoformat(now)>>)]

\* get_date_range(n) called when datetime.now().date() is `now`:
\* [raised, value], value being the pair (start_date, end_date).
get_date_range(n, now) ==
    LET e == date_minus_days(now, 1)
    IN  IF e.raised # NoExc
        THEN [raised |-> e.raised, value |-> None]
        ELSE LET s == date_minus_days(Get(e.value), n)
             IN  IF s.raised # NoExc
                 THEN [raised |-> s.raised, value |-> None]
                 ELSE [raised |-> NoExc,
                       value  |-> Some(<<isoformat(Get(s.value)),
                                         isoformat(Get(e.value))>>)]

\* The dates at which the function is called: around a leap day, a century
\* that is and one that is not a leap year, a turn of the year.
TodayProbes ==
    { Date(2000, 3, 1), Date(2024, 2, 29), Date(2024, 3, 1), Date(2025, 3, 1),
      Date(2026, 1, 1), Date(2026, 2, 1), Date(2026, 11, 3), Date(2100, 3, 1) }

\* The values of `days`: short windows either side of zero, the configured
\* one, and a year with and without its leap day.
Lookbacks == (-MaxLookback..MaxLookback) \cup {HISTORY_DAYS, 365, 366}

\* Lines 11-21
GetDateRange ==
    /\ dpc = "call"
    /\ LET r == get_date_range(days, today)
       IN  /\ dpc' = IF r.raised # NoExc THEN "raised" ELSE "returned"
           /\ date_range' = r.value
           /\ date_exc' = r.raised
    /\ UNCHANGED <<today, days>>
    /\ UNCHANGED <<fetchVars, modelVars, envVars, mainVars, histVars, lambdaVars>>

(***************************************************************************)
(* ingestion.py                                                             *)
(***************************************************************************)
\* Mutation: the instance built without running the validators.
validate_data_unchecked(raw_json) ==
    Some(Instance("WeatherAPIResponse", raw_json))

\* validate_data: the model, or None when construction raised ValidationError.
validate_data(raw_json) ==
    LET r == WeatherAPIResponse(raw_json)
    IN  IF r.ok THEN r.model ELSE None

\* What validate_data logs: the count of points, or one record per violation.
validate_log(raw_json) ==
    LET r == WeatherAPIResponse(raw_json)
    IN  IF r.ok
        THEN << LogRecord("INFO", "validated data points", Len(Get(r.model).hourly.time)) >>
        ELSE << LogRecord("ERROR", "data contract violation", Len(r.errors)) >>
             \o [k \in 1..Len(r.errors) |-> LogRecord("ERROR", r.errors[k].msg, k)]

\* str.lower() on the characters that occur in the configured names.
PyLowerChar(c) ==
    CASE c = "N" -> "n"
      [] c = "Y" -> "y"
      [] c = "S" -> "s"
      [] c = "T" -> "t"
      [] OTHER   -> c

\* Mutation: the location's name left out of the key.
str_lower_blank(name) == << >>

str_lower(name) == [i \in 1..Len(name) |-> PyLowerChar(name[i])]

\* str.replace(" ", "")
NotSpace(c) == c # " "
str_remove_spaces(name) == SelectSeq(name, NotSpace)

ValueErrorBucket ==
    [type |-> "ValueError", msg |-> "S3_BUCKET_NAME environment variable is not set"]
StorageWriteError(type) == [type |-> type, msg |-> "write failed"]

\* year=YYYY/month=MM/day=DD
Partition(timestamp) == <<timestamp.year, timestamp.month, timestamp.day>>
\* strftime("%Y%m%d"), strftime("%H%M%S")
DateStr(timestamp) == <<timestamp.year, timestamp.month, timestamp.day>>
TimeStr(timestamp) == <<timestamp.hour, timestamp.minute, timestamp.second>>

Output(city, data, timestamp) ==
    [ingested_at |-> timestamp, city |-> city.name, latitude |-> city.latitude,
     longitude |-> city.longitude, country |-> city.country, raw_response |-> data]

\* Mutation: the key carries the date of the timestamp and not its time of day.
save_raw_data_dated(city, data, timestamp, lambda, bucket, write_fails) ==
    IF lambda
    THEN IF IsNone(bucket)
         THEN [raised |-> ValueErrorBucket, stored |-> None]
         ELSE IF write_fails
         THEN [raised |-> StorageWriteError("ClientError"), stored |-> None]
         ELSE [raised |-> NoExc,
               stored |-> Some([store |-> "s3",
                                key   |-> <<"raw", Partition(timestamp),
                                            str_lower(city.name),
                                            DateStr(timestamp), << >> >>,
                                body  |-> Output(city, data, timestamp)])]
    ELSE IF write_fails
         THEN [raised |-> StorageWriteError("OSError"), stored |-> None]
         ELSE [raised |-> NoExc,
               stored |-> Some([store |-> "local",
                                key   |-> <<"data/raw", Partition(timestamp),
                                            str_remove_spaces(str_lower(city.name)),
                                            DateStr(timestamp), << >> >>,
                                body  |-> Output(city, data, timestamp)])]

\* save_raw_data(city, data, timestamp) in the environment (lambda, bucket),
\* with the storage write failing or not: [raised, stored], stored being the
\* artifact written, if any.
save_raw_data(city, data, timestamp, lambda, bucket, write_fails) ==
    IF lambda
    THEN IF IsNone(bucket)
         THEN [raised |-> ValueErrorBucket, stored |-> None]
         ELSE IF write_fails
         THEN [raised |-> StorageWriteError("ClientError"), stored |-> None]
         ELSE [raised |-> NoExc,
               stored |-> Some([store |-> "s3",
                                key   |-> <<"raw", Partition(timestamp),
                                            str_lower(city.name),
                                            DateStr(timestamp), TimeStr(timestamp)>>,
                                body  |-> Output(city, data, timestamp)])]
    ELSE IF write_fails
         THEN [raised |-> StorageWriteError("OSError"), stored |-> None]
         ELSE [raised |-> NoExc,
               stored |-> Some([store |-> "local",
                                key   |-> <<"data/raw", Partition(timestamp),
                                            str_remove_spaces(str_lower(city.name)),
                                            DateStr(timestamp), TimeStr(timestamp)>>,
                                body  |-> Output(city, data, timestamp)])]

\* datetime.now() of the docstring's example artifact.
Timestamps ==
    { [year |-> 2026, month |-> 2, day |-> 1, hour |-> 12, minute |-> 0, second |-> 0] }

\* put_object replaces the object under its key and open(filepath, 'w')
\* truncates the file: what a key holds after the writes `written` is the body
\* of the last of them made to it.
StoredAt(written, k) ==
    LET at   == { i \in 1..Len(written) : written[i].key = k }
        last == CHOOSE i \in at : \A j \in at : j <= i
    IN  written[last].body

\* The keys that hold an artifact after the writes `written`.
StoredKeys(written) == { written[i].key : i \in 1..Len(written) }

\* Timestamps one second apart.
SinkTimestamps ==
    Timestamps \cup { [t EXCEPT !.second = @ + 1] : t \in Timestamps }

\* save_raw_data called on its own, at most MaxSaves times in one environment;
\* an exception it raises ends that call.
SaveCall ==
    /\ pc = "idle"
    /\ Len(trace) < MaxSaves
    /\ \E city \in {NewYork, Singapore, Tokyo},
          data \in {GoodPayload(GoodHourly(0)), GoodPayload(GoodHourly(1))},
          timestamp \in SinkTimestamps, write_fails \in BOOLEAN :
         LET r == save_raw_data(city, data, timestamp, is_lambda, bucket_name, write_fails)
         IN  /\ trace' = Append(trace, SaveEvent(0, data))
             /\ exc' = r.raised
             /\ sink' = IF r.raised # NoExc THEN sink ELSE Append(sink, Get(r.stored))
    /\ UNCHANGED <<pc, ingestion_timestamp, city_ix, raw_data, validated,
                   success_count, failure_count, summary, upstream, log>>
    /\ UNCHANGED <<fetchVars, modelVars, envVars, dateVars, lambdaVars>>

\* What the HTTP layer does to the GETs of one location: answer at once, fail
\* some calls first, or fail every call.
MainPlans ==
    { [k \in 1..MAX_RETRIES |-> IF k <= n THEN kind ELSE "ok"] :
        n \in 0..MAX_RETRIES, kind \in FailKinds }

\* How the upstream behaves for one location: no 2xx answer within
\* MAX_RETRIES calls, a 2xx answer that breaks the contract, or one that meets it.
Behaviour(plan, body) ==
    IF \A k \in 1..MAX_RETRIES : plan[k] # "ok" THEN "exhausts"
    ELSE IF ~WeatherAPIResponse(body).ok THEN "invalid"
    ELSE "valid"

\* Lines 143-154: the date window of line 149, then the run's timestamp and
\* counters.  An exception of get_date_range leaves main.
MainStart ==
    /\ pc = "start"
    /\ LET r == get_date_range(HISTORY_DAYS, today)
       IN  /\ days' = HISTORY_DAYS
           /\ date_range' = r.value
           /\ date_exc' = r.raised
           /\ exc' = r.raised
           /\ pc' = IF r.raised # NoExc THEN "raised" ELSE "loop"
    /\ \E now \in Timestamps : ingestion_timestamp' = now
    /\ success_count' = 0
    /\ failure_count' = 0
    /\ log' = Append(log, LogRecord("INFO", "starting pipeline", 0))
    /\ UNCHANGED <<city_ix, raw_data, validated, summary, sink, trace, upstream>>
    /\ UNCHANGED <<dpc, today>>
    /\ UNCHANGED <<fetchVars, modelVars, envVars, lambdaVars>>

\* Lines 156-170: the next city, its params, the call of fetch_api_with_retry.
ProcessCity ==
    /\ pc = "loop"
    /\ city_ix < Len(CITIES)
    /\ city_ix' = city_ix + 1
    /\ pc' = "fetching"
    /\ fpc' = "attempt"
    /\ max_retries' = MAX_RETRIES
    /\ attempt' = 0
    /\ \E plan \in MainPlans, body \in PayloadSamples :
         /\ http_plan' = plan
         /\ http_body' = body
         /\ upstream' = Append(upstream, Behaviour(plan, body))
    /\ caught' = "none"
    /\ fetch_result' = None
    /\ fetch_exc' = NoExc
    /\ log' = Append(log, LogRecord("INFO", "processing", city_ix + 1))
    /\ UNCHANGED <<ingestion_timestamp, raw_data, validated, success_count,
                   failure_count, exc, summary, sink, trace>>
    /\ UNCHANGED <<modelVars, envVars, dateVars, lambdaVars>>

\* Lines 170-175: the fetch has ended.
AfterFetch ==
    /\ pc = "fetching"
    /\ fpc \in {"returned", "raised"}
    /\ IF fpc = "raised"
       THEN \* no handler in main: the exception leaves main
            /\ pc' = "raised"
            /\ exc' = fetch_exc
            /\ UNCHANGED <<raw_data, failure_count, log>>
       ELSE /\ raw_data' = fetch_result
            /\ UNCHANGED exc
            /\ IF IsNone(fetch_result)
               THEN /\ log' = Append(log, LogRecord("ERROR", "skipping: all retries failed", city_ix))
                    /\ failure_count' = failure_count + 1
                    /\ pc' = "loop"
               ELSE /\ pc' = "validate"
                    /\ UNCHANGED <<failure_count, log>>
    /\ fpc' = "idle"
    /\ http_plan' = << >>
    /\ UNCHANGED <<max_retries, attempt, http_body, caught, fetch_result, fetch_exc>>
    /\ UNCHANGED <<ingestion_timestamp, city_ix, validated, success_count,
                   summary, sink, trace, upstream>>
    /\ UNCHANGED <<modelVars, envVars, dateVars, lambdaVars>>

\* Mutation: a failed validation is not counted.
Validate_uncounted ==
    /\ pc = "validate"
    /\ validated' = validate_data(Get(raw_data))
    /\ trace' = Append(trace, Event("validate", city_ix, 0))
    /\ log' = log \o validate_log(Get(raw_data))
    /\ pc' = IF IsNone(validate_data(Get(raw_data))) THEN "loop" ELSE "save"
    /\ UNCHANGED <<ingestion_timestamp, city_ix, raw_data, success_count,
                   failure_count, exc, summary, sink, upstream>>
    /\ UNCHANGED <<fetchVars, modelVars, envVars, dateVars, lambdaVars>>

\* Mutation: a payload that fails validation is fetched again.
Validate_refetch ==
    /\ pc = "validate"
    /\ validated' = validate_data(Get(raw_data))
    /\ trace' = Append(trace, Event("validate", city_ix, 0))
    /\ log' = log \o validate_log(Get(raw_data))
    /\ IF IsNone(validate_data(Get(raw_data)))
       THEN /\ pc' = "fetching"
            /\ fpc' = "attempt"
            /\ attempt' = 0
            /\ http_plan' = [k \in 1..MAX_RETRIES |-> "ok"]
            /\ UNCHANGED <<max_retries, http_body, caught, fetch_result, fetch_exc>>
       ELSE /\ pc' = "save"
            /\ UNCHANGED fetchVars
    /\ UNCHANGED <<ingestion_timestamp, city_ix, raw_data, success_count,
                   failure_count, exc, summary, sink, upstream>>
    /\ UNCHANGED <<modelVars, envVars, dateVars, lambdaVars>>

\* Lines 177-183
Validate ==
    /\ pc = "validate"
    /\ validated' = validate_data(Get(raw_data))
    /\ trace' = Append(trace, Event("validate", city_ix, 0))
    /\ IF IsNone(validate_data(Get(raw_data)))
       THEN /\ log' = log \o validate_log(Get(raw_data))
                      \o << LogRecord("ERROR", "skipping: validation failed", city_ix) >>
            /\ failure_count' = failure_count + 1
            /\ pc' = "loop"
       ELSE /\ log' = log \o validate_log(Get(raw_data))
            /\ pc' = "save"
            /\ UNCHANGED failure_count
    /\ UNCHANGED <<ingestion_timestamp, city_ix, raw_data, success_count, exc,
                   summary, sink, upstream>>
    /\ UNCHANGED <<fetchVars, modelVars, envVars, dateVars, lambdaVars>>

\* Lines 185-187
Save ==
    /\ pc = "save"
    /\ \E write_fails \in BOOLEAN :
         LET r == save_raw_data(CITIES[city_ix], Get(raw_data), ingestion_timestamp,
                                is_lambda, bucket_name, write_fails)
         IN  IF r.raised # NoExc
             THEN \* no handler in main: the exception leaves main
                  /\ pc' = "raised"
                  /\ exc' = r.raised
                  /\ trace' = Append(trace, SaveEvent(city_ix, Get(raw_data)))
                  /\ UNCHANGED <<sink, success_count, log>>
             ELSE /\ sink' = Append(sink, Get(r.stored))
                  /\ trace' = trace \o << SaveEvent(city_ix, Get(raw_data)),
                                          Event("stored", city_ix, 0) >>
                  /\ log' = Append(log, LogRecord("INFO", "saved", city_ix))
                  /\ success_count' = success_count + 1
                  /\ pc' = "pace"
                  /\ UNCHANGED exc
    /\ UNCHANGED <<ingestion_timestamp, city_ix, raw_data, validated,
                   failure_count, summary, upstream>>
    /\ UNCHANGED <<fetchVars, modelVars, envVars, dateVars, lambdaVars>>

\* Lines 189-191
Pace ==
    /\ pc = "pace"
    /\ pc' = "loop"
    /\ IF CITIES[city_ix] # CITIES[Len(CITIES)]
       THEN trace' = Append(trace, Event("pace_sleep", city_ix, DELAY_BETWEEN_CITIES))
       ELSE UNCHANGED trace
    /\ UNCHANGED <<ingestion_timestamp, city_ix, raw_data, validated, success_count,
                   failure_count, exc, summary, sink, log, upstream>>
    /\ UNCHANGED <<fetchVars, modelVars, envVars, dateVars, lambdaVars>>

\* Lines 193-211
Summary ==
    /\ pc = "loop"
    /\ city_ix = Len(CITIES)
    /\ pc' = "returned"
    /\ summary' = Some([success_count    |-> success_count,
                        failure_count    |-> failure_count,
                        total_records    |-> success_count * 30 * 24,
                        cities_processed |-> [k \in 1..Len(CITIES) |-> CITIES[k].name]])
    /\ log' = log \o << LogRecord("INFO", "successful", success_count),
                        LogRecord("INFO", "failed", failure_count),
                        LogRecord("INFO", "total records", success_count * 30 * 24) >>
                 \o (IF failure_count > 0
                     THEN << LogRecord("WARNING", "some cities failed", failure_count) >>
                     ELSE << >>)
    /\ UNCHANGED <<ingestion_timestamp, city_ix, raw_data, validated, success_count,
                   failure_count, exc, sink, trace, upstream>>
    /\ UNCHANGED <<fetchVars, modelVars, envVars, dateVars, lambdaVars>>

(***************************************************************************)
(* lambda_handler.py                                                        *)
(***************************************************************************)
\* The events the Lambda runtime hands over: what it decoded from the JSON of
\* the trigger (an EventBridge schedule, a manual invoke with or without input).
LambdaEvents == {"dict", "list", "null"}

\* json.dumps(obj): the JSON text of obj, held as the value it decodes to.
json_dumps(obj) == [json |-> obj]

\* str(e)
str_of(e) == e.msg

\* Lines 25-33: the invocation is logged and, inside the try, main() is called.
\* context is the runtime's LambdaContext and carries aws_request_id.
HandlerInvoke ==
    /\ hpc = "invoked"
    /\ pc = "idle"
    /\ hpc' = "running"
    /\ pc' = "start"
    /\ log' = log \o << LogRecord("INFO", "Lambda function invoked", 0),
                        LogRecord("INFO", "Request ID", 0),
                        LogRecord("INFO", json_dumps(lambda_event), 0) >>
    /\ UNCHANGED <<lambda_event, response, handler_exc>>
    /\ UNCHANGED <<ingestion_timestamp, city_ix, raw_data, validated, success_count,
                   failure_count, exc, summary, sink, trace, upstream>>
    /\ UNCHANGED <<fetchVars, modelVars, envVars, dateVars>>

\* Mutation: no except clause, an exception of main() leaves the handler.
HandlerExcept_reraise ==
    /\ hpc = "running"
    /\ pc = "raised"
    /\ hpc' = "raised"
    /\ handler_exc' = exc
    /\ UNCHANGED <<lambda_event, response>>
    /\ UNCHANGED <<fetchVars, modelVars, envVars, mainVars, histVars, dateVars>>

\* Lines 33-45: main() returned, the 200 response.
HandlerReturn ==
    /\ hpc = "running"
    /\ pc = "returned"
    /\ hpc' = "returned"
    /\ \E now \in Timestamps :
         response' = Some([statusCode |-> 200,
                           body |-> json_dumps(
                               [message   |-> "Weather ingestion pipeline is successful",
                                timestamp |-> now,
                                result    |-> Get(summary)])])
    /\ log' = Append(log, LogRecord("INFO", "Lambda execution completed successfully", 0))
    /\ UNCHANGED <<lambda_event, handler_exc, trace, upstream>>
    /\ UNCHANGED <<fetchVars, modelVars, envVars, mainVars, dateVars>>

\* Lines 47-57: `except Exception as e`, the 500 response.
HandlerExcept ==
    /\ hpc = "running"
    /\ pc = "raised"
    /\ hpc' = "returned"
    /\ \E now \in Timestamps :
         response' = Some([statusCode |-> 500,
                           body |-> json_dumps(
                               [message    |-> "Weather ingestion pipeline is failed",
                                error      |-> str_of(exc),
                                timestamp  |-> now,
                                request_id |-> "aws_request_id"])])
    /\ log' = Append(log, LogRecord("ERROR", "Lambda execution failed", 0))
    /\ UNCHANGED <<lambda_event, handler_exc, trace, upstream>>
    /\ UNCHANGED <<fetchVars, modelVars, envVars, mainVars, dateVars>>

(***************************************************************************)
(* Specifications.                                                          *)
(***************************************************************************)
NoResult == [ok |-> FALSE, model |-> None, errors |-> << >>, of |-> ""]

FetchIdle ==
    /\ fpc = "idle"
    /\ max_retries = 0
    /\ attempt = 0
    /\ http_plan = << >>
    /\ http_body = GoodPayload(GoodHourly(0))
    /\ caught = "none"
    /\ fetch_result = None
    /\ fetch_exc = NoExc

ModelIdle ==
    /\ mpc = "idle"
    /\ kwargs = GoodPayload(GoodHourly(0))
    /\ result = NoResult

MainIdle(p) ==
    /\ pc = p
    /\ ingestion_timestamp = [year |-> 0, month |-> 0, day |-> 0,
                              hour |-> 0, minute |-> 0, second |-> 0]
    /\ city_ix = 0
    /\ raw_data = None
    /\ validated = None
    /\ success_count = 0
    /\ failure_count = 0
    /\ exc = NoExc
    /\ summary = None
    /\ sink = << >>

DateIdle(now) ==
    /\ dpc = "idle"
    /\ today = now
    /\ days = 0
    /\ date_range = None
    /\ date_exc = NoExc

LambdaIdle ==
    /\ hpc = "idle"
    /\ lambda_event = "none"
    /\ response = None
    /\ handler_exc = NoExc

\* The day of the run's timestamp.
RunDay == Date(2026, 2, 1)

\* A run of main(): any explored configuration, locally or deployed, the
\* bucket name set or not.
Init ==
    /\ FetchIdle
    /\ ModelIdle
    /\ MainIdle("start")
    /\ DateIdle(RunDay)
    /\ LambdaIdle
    /\ CITIES \in CityLists
    /\ is_lambda \in BOOLEAN
    /\ bucket_name \in {None, Some("weather-raw")}
    /\ (~is_lambda => IsNone(bucket_name))
    /\ trace = << >>
    /\ upstream = << >>
    /\ log = << >>

Next ==
    \/ MainStart
    \/ ProcessCity
    \/ FetchAttempt
    \/ FetchExcept
    \/ AfterFetch
    \/ Validate
    \/ Save
    \/ Pace
    \/ Summary

Spec == Init /\ [][Next]_vars

\* One call of fetch_api_with_retry against an HTTP layer whose answers to
\* the successive GETs are fixed beforehand.
InitFetch ==
    /\ fpc = "attempt"
    /\ max_retries \in 0..MaxAttempts
    /\ attempt = 0
    /\ http_plan \in SeqsOfLen(Outcomes, MaxAttempts)
    /\ http_body \in PayloadSamples
    /\ caught = "none"
    /\ fetch_result = None
    /\ fetch_exc = NoExc
    /\ ModelIdle
    /\ MainIdle("idle")
    /\ DateIdle(RunDay)
    /\ LambdaIdle
    /\ CITIES = << >>
    /\ is_lambda = FALSE
    /\ bucket_name = None
    /\ trace = << >>
    /\ upstream = << >>
    /\ log = << >>

NextFetch ==
    \/ FetchAttempt
    \/ FetchExcept

SpecFetch == InitFetch /\ [][NextFetch]_vars

\* One call of get_date_range, on any probed day with any probed lookback.
InitDate ==
    /\ dpc = "call"
    /\ today \in TodayProbes
    /\ days \in Lookbacks
    /\ date_range = None
    /\ date_exc = NoExc
    /\ FetchIdle
    /\ ModelIdle
    /\ MainIdle("idle")
    /\ LambdaIdle
    /\ CITIES = << >>
    /\ is_lambda = FALSE
    /\ bucket_name = None
    /\ trace = << >>
    /\ upstream = << >>
    /\ log = << >>

NextDate ==
    \/ GetDateRange

SpecDate == InitDate /\ [][NextDate]_vars

\* One invocation of lambda_handler by the Lambda runtime, over the configured
\* locations: the function name is in the environment, the bucket name is set
\* or not.
InitLambda ==
    /\ FetchIdle
    /\ ModelIdle
    /\ MainIdle("idle")
    /\ DateIdle(RunDay)
    /\ hpc = "invoked"
    /\ lambda_event \in LambdaEvents
    /\ response = None
    /\ handler_exc = NoExc
    /\ CITIES = ConfiguredCities
    /\ is_lambda = TRUE
    /\ bucket_name \in {None, Some("weather-raw")}
    /\ trace = << >>
    /\ upstream = << >>
    /\ log = << >>

NextLambda ==
    \/ HandlerInvoke
    \/ MainStart
    \/ ProcessCity
    \/ FetchAttempt
    \/ FetchExcept
    \/ AfterFetch
    \/ Validate
    \/ Save
    \/ Pace
    \/ Summary
    \/ HandlerReturn
    \/ HandlerExcept

SpecLambda == InitLambda /\ [][NextLambda]_vars

\* Calls of save_raw_data outside a run of main, in any environment.
InitSink ==
    /\ FetchIdle
    /\ ModelIdle
    /\ MainIdle("idle")
    /\ DateIdle(RunDay)
    /\ LambdaIdle
    /\ CITIES = << >>
    /\ is_lambda \in BOOLEAN
    /\ bucket_name \in {None, Some("weather-raw")}
    /\ (~is_lambda => IsNone(bucket_name))
    /\ trace = << >>
    /\ upstream = << >>
    /\ log = << >>

NextSink ==
    \/ SaveCall

SpecSink == InitSink /\ [][NextSink]_vars

\* One construction of a model from a payload.
InitModels ==
    /\ FetchIdle
    /\ mpc = "input"
    /\ kwargs \in ModelInputs
    /\ result = NoResult
    /\ MainIdle("idle")
    /\ DateIdle(RunDay)
    /\ LambdaIdle
    /\ CITIES = << >>
    /\ is_lambda = FALSE
    /\ bucket_name = None
    /\ trace = << >>
    /\ upstream = << >>
    /\ log = << >>

NextModels ==
    \/ ConstructHourlyData
    \/ ConstructWeatherAPIResponse

SpecModels == InitModels /\ [][NextModels]_vars

(***************************************************************************)
(* fetch_api_with_retry: retry and backoff (SpecFetch).                     *)
(***************************************************************************)
FetchEnded == fpc \in {"returned", "raised"}

\* The HTTP layer fails the first k calls and answers the next one.
FailsThenSucceeds(k) ==
    /\ k < Len(http_plan)
    /\ \A j \in 1..k : http_plan[j] \in FailKinds
    /\ http_plan[k + 1] = "ok"

\* The HTTP layer fails every call the fetch may make.
AlwaysFails == \A j \in 1..max_retries : http_plan[j] \in FailKinds

\* n GETs with a sleep of 2^j after the j-th of them, none after the last:
\* get 1, sleep 2, get 2, sleep 4, ..., get n.
BackoffSchedule(n) ==
    [i \in 1..(2 * n - 1) |->
        IF i % 2 = 1 THEN Event("get", 0, (i + 1) \div 2)
        ELSE Event("backoff_sleep", 0, 2 ^ (i \div 2))]

\* C1: when the HTTP layer fails its first k calls, k < max_attempts, and then
\* succeeds, the fetch returns the successful payload after exactly k+1 calls
\* and exactly k sleeps of 2^1, ..., 2^k, each between a failed call and the
\* next call, and makes no call after the successful one.
C1_RetryThenSuccess ==
    \A k \in 0..(max_retries - 1) :
        (FetchEnded /\ FailsThenSucceeds(k)) =>
            /\ fpc = "returned"
            /\ fetch_result = Some(http_body)
            /\ trace = BackoffSchedule(k + 1)

\* C2: when the HTTP layer fails every call, the fetch makes exactly
\* max_attempts calls with max_attempts-1 sleeps of 2, 4, ..., none after the
\* last failed call, and returns None.
C2_AllRetriesFail ==
    (FetchEnded /\ max_retries >= 1 /\ AlwaysFails) =>
        /\ fpc = "returned"
        /\ fetch_result = None
        /\ trace = BackoffSchedule(max_retries)

\* C3: whatever the outcomes of the attempts, no exception leaves
\* fetch_api_with_retry: it ends by returning a payload or None.
C3_NeverRaises ==
    /\ fpc # "raised"
    /\ fetch_exc = NoExc

(***************************************************************************)
(* main: isolation, persistence and error propagation (Spec).               *)
(***************************************************************************)
MainEnded == pc \in {"returned", "raised"}

Happened(op, i) == \E n \in 1..Len(trace) : trace[n].op = op /\ trace[n].city = i

\* The GETs are issued location by location, in configured order.
FetchesInOrder ==
    \A m, n \in 1..Len(trace) :
        (m < n /\ trace[m].op = "get" /\ trace[n].op = "get")
            => trace[m].city <= trace[n].city

ValidLocations == { i \in 1..Len(upstream) : upstream[i] = "valid" }

StorageFailed == exc.type \in {"ValueError", "OSError", "ClientError"}

\* C4: whatever the upstream does for each location (exhausts the retries,
\* answers with an invalid payload, answers with a valid one), and the storage
\* working, a fetch is attempted for every location in configured order, every
\* location with a valid answer is persisted, and main returns a summary with
\* success_count = number of those locations, failure_count = number of the
\* others and cities_processed = all configured names in order.
C4_PerLocationIsolation ==
    (MainEnded /\ ~StorageFailed) =>
        /\ pc = "returned"
        /\ \A i \in 1..Len(CITIES) : Happened("get", i)
        /\ FetchesInOrder
        /\ Len(upstream) = Len(CITIES)
        /\ \A i \in ValidLocations : Happened("stored", i)
        /\ Get(summary).success_count = Cardinality(ValidLocations)
        /\ Get(summary).failure_count = Len(CITIES) - Cardinality(ValidLocations)
        /\ Get(summary).cities_processed = [k \in 1..Len(CITIES) |-> CITIES[k].name]

\* C5: save_raw_data is called for a location only after, in this run, the
\* fetch of that location returned a payload and validate_data accepted that
\* payload; what it is given is that raw payload, never a payload the contract
\* rejects and never the validated model.
C5_SaveOnlyValidatedRaw ==
    /\ \A n \in 1..Len(trace) :
        trace[n].op = "save" =>
            /\ \E g, v \in 1..(n - 1) :
                /\ g < v
                /\ trace[g].op = "get" /\ trace[g].city = trace[n].city
                /\ trace[v].op = "validate" /\ trace[v].city = trace[n].city
            /\ WeatherAPIResponse(Get(trace[n].data)).ok
            /\ "cls" \notin DOMAIN Get(trace[n].data)
            /\ (trace[n].city = city_ix =>
                    /\ fetch_result = Some(http_body)
                    /\ Get(trace[n].data) = http_body)
    /\ \A k \in 1..Len(sink) :
            /\ WeatherAPIResponse(sink[k].body.raw_response).ok
            /\ "cls" \notin DOMAIN sink[k].body.raw_response

\* A valid payload was fetched, validated and handed to save_raw_data, which stored it.
C5_Witness ==
    /\ pc = "pace"
    /\ Happened("save", city_ix)
    /\ Len(sink) >= 1
    /\ sink[Len(sink)].body.raw_response = http_body

\* save_raw_data was called for location i and did not store.
SaveFailed(i) == Happened("save", i) /\ ~Happened("stored", i)

\* C6: a per-location error, the error raised by the storage sink while
\* writing a validated payload included, is caught in main: it is counted in
\* failure_count, the remaining locations are still processed and no exception
\* leaves main.  (Stated for the write error; a missing bucket name is a
\* configuration error, not a per-location one.)
C6_StorageErrorCaught ==
    (MainEnded /\ exc # ValueErrorBucket /\ \E i \in 1..Len(CITIES) : SaveFailed(i)) =>
        /\ pc = "returned"
        /\ exc = NoExc
        /\ \A i \in 1..Len(CITIES) : Happened("get", i)
        /\ Get(summary).failure_count
              >= Cardinality({ i \in 1..Len(CITIES) : SaveFailed(i) })

\* C7: with the object-storage sink selected and S3_BUCKET_NAME missing, the
\* missing-configuration error is raised before any GET is issued.
C7_MissingBucketBeforeFetch ==
    exc = ValueErrorBucket => \A n \in 1..Len(trace) : trace[n].op # "get"

(***************************************************************************)
(* The data contract (SpecModels).                                          *)
(***************************************************************************)
Built(cls) == mpc = "done" /\ result.of = cls

\* The set of distinct lengths of the six sequences of the payload.
Lengths(h) ==
    { Len(h.time), Len(h.temperature_2m), Len(h.relative_humidity_2m),
      Len(h.weather_code), Len(h.wind_speed_10m), Len(h.precipitation) }

\* The inclusive range the contract states for each metric.
StatedRange(f) ==
    CASE f = "temperature_2m"       -> [lo |-> -60, hi |-> 60]
      [] f = "relative_humidity_2m" -> [lo |-> 0,   hi |-> 100]
      [] f = "weather_code"         -> [lo |-> 0,   hi |-> 99]
      [] f = "wind_speed_10m"       -> [lo |-> 0,   hi |-> 400]
      [] f = "precipitation"        -> [lo |-> 0,   hi |-> 500]

Metrics == { HOURLY_METRICS[k] : k \in 1..Len(HOURLY_METRICS) }

Within(f, v) == StatedRange(f).lo <= v /\ v <= StatedRange(f).hi

AllWithin(f, values) == \A i \in 1..Len(values) : Within(f, values[i])

EveryMetricWithin(h) == \A f \in Metrics : AllWithin(f, h[f])

CitesLengths(errors, lengths) ==
    \E k \in 1..Len(errors) :
        /\ errors[k].msg = "Mismatched array lengths"
        /\ errors[k].lengths = lengths

\* C8 as stated: HourlyData rejects every payload whose six sequences do not
\* all have the same length, producing no model and a reason that contains
\* the set of distinct lengths; the length check accepts exactly when that set
\* has one element.
C8_LengthMismatchCited ==
    Built("HourlyData") =>
        LET h == kwargs.hourly
        IN  /\ Cardinality(Lengths(h)) # 1 =>
                /\ ~result.ok
                /\ IsNone(result.model)
                /\ CitesLengths(result.errors, Lengths(h))
            /\ (check_all_length_is_match(h) = << >>) <=> (Cardinality(Lengths(h)) = 1)

\* C8 amended: HourlyData rejects every payload whose six sequences do not all
\* have the same length and produces no model; when in addition every metric
\* value is within its range the reason is the length mismatch with the set of
\* distinct lengths, and when some value is out of range the reasons are the
\* range violations only and the lengths are not reported; the length check
\* accepts exactly when the set of distinct lengths has one element.
C8_LengthMismatchRejected ==
    Built("HourlyData") =>
        LET h == kwargs.hourly
        IN  /\ Cardinality(Lengths(h)) # 1 =>
                /\ ~result.ok
                /\ IsNone(result.model)
                /\ EveryMetricWithin(h) =>
                       /\ Len(result.errors) = 1
                       /\ CitesLengths(result.errors, Lengths(h))
                /\ ~EveryMetricWithin(h) =>
                       \A k \in 1..Len(result.errors) :
                           /\ result.errors[k].msg # "Mismatched array lengths"
                           /\ result.errors[k].lengths = {}
            /\ (check_all_length_is_match(h) = << >>) <=> (Cardinality(Lengths(h)) = 1)

\* time has 2 entries, temperature_2m has 1, every value is in range: the
\* failure cites {1, 2}.
C8_Witness ==
    /\ Built("HourlyData")
    /\ Len(kwargs.hourly.time) = 2
    /\ Len(kwargs.hourly.temperature_2m) = 1
    /\ EveryMetricWithin(kwargs.hourly)
    /\ ~result.ok
    /\ CitesLengths(result.errors, {1, 2})

\* The range violation reported for metric f, if any: the entry whose field
\* path ends in f.
RangeErrorsOf(f) ==
    SelectSeq(result.errors,
              LAMBDA e : Len(e.loc) >= 1 /\ e.loc[Len(e.loc)] = f)

\* C9: for each metric the range validator accepts a sequence exactly when
\* every value lies within the inclusive bounds (temperature_2m -60..60,
\* relative_humidity_2m 0..100, weather_code 0..99, wind_speed_10m 0..400,
\* precipitation 0..500); a single value out of range anywhere in the sequence
\* makes validation fail with a reason citing that metric's range.
C9_RangeValidators ==
    mpc = "done" =>
        \A f \in Metrics :
            LET values == kwargs.hourly[f]
                reported == RangeErrorsOf(f)
            IN  /\ AllWithin(f, values) <=> reported = << >>
                /\ ~AllWithin(f, values) =>
                    /\ ~result.ok
                    /\ IsNone(result.model)
                    /\ Len(reported) = 1
                    /\ reported[1].type = "value_error"
                    /\ reported[1].lo = StatedRange(f).lo
                    /\ reported[1].hi = StatedRange(f).hi
                    /\ ~Within(f, reported[1].value)
                    /\ \E i \in 1..Len(values) : values[i] = reported[1].value

\* A boundary value is accepted and the out-of-range value after it is reported.
C9_Witness ==
    /\ Built("HourlyData")
    /\ kwargs.hourly.temperature_2m = <<60, 61>>
    /\ Len(result.errors) = 1
    /\ result.errors[1].loc = <<"temperature_2m">>
    /\ result.errors[1].value = 61

EnvelopeErrors ==
    SelectSeq(result.errors, LAMBDA e : e.loc[1] # "hourly")

GmtCited(field, value) ==
    \E k \in 1..Len(result.errors) :
        /\ result.errors[k].loc = <<field>>
        /\ result.errors[k].msg = "Expected GMT, but got"
        /\ result.errors[k].got = value

\* C10: WeatherAPIResponse accepts the envelope exactly when latitude is in
\* [-90, 90], longitude is in [-180, 180] and timezone and
\* timezone_abbreviation both equal "GMT"; any other value of either timezone
\* field fails validation with a reason citing GMT and the value received.
C10_Envelope ==
    Built("WeatherAPIResponse") =>
        LET envelopeOk ==
                /\ -90 <= kwargs.latitude /\ kwargs.latitude <= 90
                /\ -180 <= kwargs.longitude /\ kwargs.longitude <= 180
                /\ kwargs.timezone = "GMT"
                /\ kwargs.timezone_abbreviation = "GMT"
            hourlyOk ==
                /\ Cardinality(Lengths(kwargs.hourly)) = 1
                /\ EveryMetricWithin(kwargs.hourly)
        IN  /\ envelopeOk <=> EnvelopeErrors = << >>
            /\ result.ok <=> (envelopeOk /\ hourlyOk)
            /\ kwargs.timezone # "GMT" =>
                   ~result.ok /\ GmtCited("timezone", kwargs.timezone)
            /\ kwargs.timezone_abbreviation # "GMT" =>
                   ~result.ok
                   /\ GmtCited("timezone_abbreviation", kwargs.timezone_abbreviation)

\* timezone "PST" with everything else well formed: rejected, citing GMT and PST.
C10_Witness ==
    /\ Built("WeatherAPIResponse")
    /\ kwargs.timezone = "PST"
    /\ kwargs.timezone_abbreviation = "GMT"
    /\ kwargs.latitude = 90
    /\ kwargs.longitude = -180
    /\ ~result.ok
    /\ Len(result.errors) = 1
    /\ GmtCited("timezone", "PST")

(***************************************************************************)
(* The validator round trip.                                                *)
(***************************************************************************)
\* A payload that meets the contract: every metric value within its stated
\* range, one length for time and all metrics, both timezone fields GMT, the
\* coordinates within +-90 and +-180.
MeetsContract(p) ==
    /\ EveryMetricWithin(p.hourly)
    /\ Cardinality(Lengths(p.hourly)) = 1
    /\ p.timezone = "GMT"
    /\ p.timezone_abbreviation = "GMT"
    /\ -90 <= p.latitude /\ p.latitude <= 90
    /\ -180 <= p.longitude /\ p.longitude <= 180

\* The fields of a model instance, its class left aside.
FieldsOf(m) == [f \in DOMAIN m \ {"cls"} |-> m[f]]

\* The model holds the payload's values, field by field, the two nested
\* objects included.
SameContent(m, p) ==
    /\ DOMAIN FieldsOf(m) = DOMAIN p
    /\ \A f \in DOMAIN p \ {"hourly", "hourly_units"} : m[f] = p[f]
    /\ m.cls = "WeatherAPIResponse"
    /\ m.hourly.cls = "HourlyData"
    /\ FieldsOf(m.hourly) = p.hourly
    /\ m.hourly_units.cls = "HourlyUnitData"
    /\ FieldsOf(m.hourly_units) = p.hourly_units

RoundTrip ==
    (Built("WeatherAPIResponse") /\ MeetsContract(kwargs)) =>
        /\ result.ok
        /\ result.errors = << >>
        /\ SameContent(Get(result.model), kwargs)
        /\ validate_data(kwargs) = result.model
        /\ "cls" \notin DOMAIN kwargs

\* C11: every payload that meets the contract (all metric values in range,
\* one common length for time and the metrics, the empty sequences included,
\* both timezone fields GMT, coordinates in bounds) validates; the model that
\* validate_data returns holds the payload's values field by field; and the
\* construction leaves the payload it was given as it was.
C11_RoundTrip == [](RoundTrip) /\ [][kwargs' = kwargs]_vars

\* The all-empty payload of test_empty_lists has been validated.
C11_Witness ==
    /\ Built("WeatherAPIResponse")
    /\ MeetsContract(kwargs)
    /\ Len(kwargs.hourly.time) = 0
    /\ result.ok
    /\ Get(result.model).hourly.time = << >>
(***************************************************************************)
(* Persistence: keys and overwriting.                                       *)
(***************************************************************************)
\* Two writes of the same location at the same timestamp.
SamePair(a, b) ==
    /\ a.body.city = b.body.city
    /\ a.body.ingested_at = b.body.ingested_at

\* C12 as stated: two calls of save_raw_data with the same location and the
\* same timestamp write under distinct keys, and what the first stored is
\* still stored after the second.
C12_DistinctArtifacts ==
    \A i, j \in 1..Len(sink) :
        (i < j /\ SamePair(sink[i], sink[j])) =>
            /\ sink[i].key # sink[j].key
            /\ StoredAt(sink, sink[i].key) = sink[i].body

\* C12 amended: two calls of save_raw_data with the same location and the
\* same timestamp write under the same key of the same store, so that key
\* holds what the later call wrote and the earlier artifact is replaced; two
\* calls for the same location whose timestamps differ write under distinct
\* keys.
C12_SameKeyOverwrites ==
    \A i, j \in 1..Len(sink) :
        i < j =>
            /\ SamePair(sink[i], sink[j]) =>
                   /\ sink[i].key = sink[j].key
                   /\ sink[i].store = sink[j].store
                   /\ \E k \in j..Len(sink) :
                          /\ sink[k].key = sink[i].key
                          /\ StoredAt(sink, sink[i].key) = sink[k].body
            /\ (/\ sink[i].body.city = sink[j].body.city
                /\ sink[i].body.ingested_at # sink[j].body.ingested_at) =>
                   sink[i].key # sink[j].key

\* The same location saved twice at the same timestamp with different
\* payloads: one key, holding the second payload.
C12_Witness ==
    /\ Len(sink) = 2
    /\ SamePair(sink[1], sink[2])
    /\ sink[1].body.raw_response # sink[2].body.raw_response
    /\ StoredKeys(sink) = { sink[1].key }
    /\ StoredAt(sink, sink[1].key) = sink[2].body
\* The number of events `op` of location i in the history.
Count(op, i) ==
    Cardinality({ n \in 1..Len(trace) : trace[n].op = op /\ trace[n].city = i })

\* The key under which this run stores location c.
RunKey(c) ==
    Get(save_raw_data(c, GoodPayload(GoodHourly(0)), ingestion_timestamp,
                      is_lambda, Some("weather-raw"), FALSE).stored).key

\* Over a whole run, however it ended: save_raw_data was called at most once
\* for a location and once for each stored location, each stored location
\* accounts for one artifact, and artifacts of distinct names have distinct keys.
OncePerLocation ==
    MainEnded =>
        /\ \A i \in 1..Len(CITIES) :
               /\ Count("save", i) <= 1
               /\ Count("stored", i) <= Count("save", i)
               /\ i > city_ix => Count("save", i) = 0
        /\ Len(sink) = Cardinality({ i \in 1..Len(CITIES) : Count("stored", i) = 1 })
        /\ Len(sink) = success_count
        /\ \A a, b \in 1..Len(sink) :
               sink[a].body.city # sink[b].body.city => sink[a].key # sink[b].key

\* Once the run's timestamp is taken: the keys of any two configured
\* locations of distinct names differ.
KeysDistinct ==
    (pc = "loop" /\ city_ix = 0) =>
        \A i, j \in 1..Len(CITIES) :
            CITIES[i].name # CITIES[j].name => RunKey(CITIES[i]) # RunKey(CITIES[j])

\* C13: in a run of main() save_raw_data is called exactly once for each
\* location that is stored and never twice for a location, and no two
\* locations of distinct names are written to the same key: the key built from
\* the normalised name and the run's shared timestamp differs for every two
\* configured locations of distinct names.
C13_OneKeyPerLocation == [](OncePerLocation /\ KeysDistinct)

\* A run that stored three locations of distinct names under three keys.
C13_Witness ==
    /\ pc = "returned"
    /\ Len(sink) = 3
    /\ Cardinality(StoredKeys(sink)) = 3
    /\ \E a \in 1..3 : sink[a].body.city = NewYork.name
(***************************************************************************)
(* Pacing between locations.                                                *)
(***************************************************************************)
\* The positions in the history of the pauses made after location i.
PausesAfter(i) ==
    { n \in 1..Len(trace) : trace[n].op = "pace_sleep" /\ trace[n].city = i }

\* C14: whenever the first GET of a location other than the first is issued,
\* exactly one pause, of DELAY_BETWEEN_CITIES, was made after the location
\* before it, whatever that location's outcome; no pause is made after the
\* last location; a run that returns over n >= 1 locations has paused n - 1
\* times.
C14_PauseAfterEachButLast ==
    /\ \A n \in 1..Len(trace) :
           (trace[n].op = "get" /\ trace[n].arg = 1 /\ trace[n].city >= 2) =>
               /\ Cardinality({ m \in PausesAfter(trace[n].city - 1) : m < n }) = 1
               /\ \A m \in PausesAfter(trace[n].city - 1) :
                      trace[m].arg = DELAY_BETWEEN_CITIES
    /\ PausesAfter(Len(CITIES)) = {}
    /\ (pc = "returned" /\ Len(CITIES) >= 1) =>
           Cardinality({ n \in 1..Len(trace) : trace[n].op = "pace_sleep" })
               = Len(CITIES) - 1
(***************************************************************************)
(* The Lambda entry point.                                                  *)
(***************************************************************************)
HandlerEnded == hpc \in {"returned", "raised"}

\* The body of the response, decoded.
Body == Get(response).body.json

\* C15: lambda_handler never raises and, once main() has ended, returns: when
\* main() returned a summary the response has statusCode 200 and a body with
\* the message, a timestamp and that summary; when main() raised the response
\* has statusCode 500 and a body with the message, a timestamp and the text
\* of the exception.
C15_HandlerAlwaysResponds ==
    /\ hpc # "raised"
    /\ handler_exc = NoExc
    /\ (hpc = "running" /\ MainEnded) => ENABLED (HandlerReturn \/ HandlerExcept)
    /\ HandlerEnded =>
           /\ ~IsNone(response)
           /\ MainEnded
           /\ pc = "returned" =>
                  /\ Get(response).statusCode = 200
                  /\ DOMAIN Body = {"message", "timestamp", "result"}
                  /\ Body.message = "Weather ingestion pipeline is successful"
                  /\ Body.timestamp \in Timestamps
                  /\ Body.result = Get(summary)
           /\ pc = "raised" =>
                  /\ Get(response).statusCode = 500
                  /\ {"message", "timestamp", "error"} \subseteq DOMAIN Body
                  /\ Body.message = "Weather ingestion pipeline is failed"
                  /\ Body.timestamp \in Timestamps
                  /\ Body.error = exc.msg
                  /\ exc # NoExc

\* main() raised on the unset bucket name and the handler answered 500 with
\* the text of that error.
C15_Witness ==
    /\ hpc = "returned"
    /\ pc = "raised"
    /\ Get(response).statusCode = 500
    /\ Body.error = "S3_BUCKET_NAME environment variable is not set"
(***************************************************************************)
(* The date window.                                                         *)
(***************************************************************************)
DateEnded == dpc \in {"returned", "raised"}

\* The civil calendar: the length of a month, the day before a date, and the
\* date n >= 0 days before a date, reached month by month.
MonthLength(y, m) ==
    IF m = 2
    THEN (IF (y % 4 = 0 /\ y % 100 # 0) \/ y % 400 = 0 THEN 29 ELSE 28)
    ELSE IF m \in {4, 6, 9, 11} THEN 30 ELSE 31

EndOfMonthBefore(d) ==
    IF d.month > 1 THEN Date(d.year, d.month - 1, MonthLength(d.year, d.month - 1))
    ELSE Date(d.year - 1, 12, 31)

DayBefore(d) ==
    IF d.day > 1 THEN Date(d.year, d.month, d.day - 1) ELSE EndOfMonthBefore(d)

RECURSIVE DaysBefore(_, _)
DaysBefore(d, n) ==
    IF n < d.day THEN Date(d.year, d.month, d.day - n)
    ELSE DaysBefore(EndOfMonthBefore(d), n - d.day)

\* 'YYYY-MM-DD' read back as a date; the order of two such dates.
fromisoformat(iso) == Date(iso[1], iso[2], iso[3])

NotAfter(a, b) ==
    \/ a.year < b.year
    \/ a.year = b.year /\ a.month < b.month
    \/ a.year = b.year /\ a.month = b.month /\ a.day <= b.day

\* C16: for every lookback days >= 0 and every current date, get_date_range
\* returns; its end_date is the day before the current date, its start_date
\* is the date reached by going back `days` days, one at a time, from
\* end_date, and start_date is not after end_date.
C16_WindowEndsYesterday ==
    (DateEnded /\ days >= 0) =>
        /\ dpc = "returned"
        /\ LET start_date == fromisoformat(Get(date_range)[1])
               end_date   == fromisoformat(Get(date_range)[2])
           IN  /\ end_date = DayBefore(today)
               /\ end_date # today
               /\ start_date = DaysBefore(end_date, days)
               /\ ymd2ord(end_date) - ymd2ord(start_date) = days
               /\ NotAfter(start_date, end_date)
               /\ (days > 0 => start_date # end_date)

\* Called on 2024-03-01 with 366 days: the window runs from 2023-02-28 to the
\* leap day 2024-02-29.
C16_Witness ==
    /\ dpc = "returned"
    /\ today = Date(2024, 3, 1)
    /\ days = 366
    /\ date_range = Some(<< <<2023, 2, 28>>, <<2024, 2, 29>> >>)

\* C17: a call of get_date_range with negative days ends in an error and
\* returns no window, so that no returned window has its start_date after its
\* end_date; a call with days >= 0 raises nothing.
C17_NegativeLookbackRejected ==
    DateEnded =>
        /\ days < 0 => (dpc = "raised" /\ date_exc # NoExc /\ IsNone(date_range))
        /\ dpc = "returned" =>
               NotAfter(fromisoformat(Get(date_range)[1]),
                        fromisoformat(Get(date_range)[2]))
        /\ days >= 0 => dpc = "returned"
(***************************************************************************)
(* The summary's record count.                                              *)
(***************************************************************************)
\* The number of days of the inclusive window [start_date, end_date] that
\* main requested for every location.
WindowDays ==
    ymd2ord(fromisoformat(Get(date_range)[2]))
        - ymd2ord(fromisoformat(Get(date_range)[1])) + 1

\* C18: the summary main() returns has total_records = success_count times the
\* number of hourly points of the requested window, that is the number of
\* days of the inclusive window [start_date, end_date] obtained from
\* HISTORY_DAYS, times 24.
C18_TotalRecordsTracksWindow ==
    pc = "returned" =>
        /\ days = HISTORY_DAYS
        /\ date_range = get_date_range(HISTORY_DAYS, today).value
        /\ Get(summary).total_records = Get(summary).success_count * WindowDays * 24
(***************************************************************************)
(* The order and the collection of the checks.                              *)
(***************************************************************************)
IsLengthError(e) == e.msg = "Mismatched array lengths"

\* A range violation of a metric: it names the metric and its range.
IsRangeError(e) ==
    /\ Len(e.loc) >= 1
    /\ e.loc[Len(e.loc)] \in Metrics
    /\ e.lo = StatedRange(e.loc[Len(e.loc)]).lo
    /\ e.hi = StatedRange(e.loc[Len(e.loc)]).hi

\* The metrics of h holding a value outside their range.
Offending(h) == { f \in Metrics : ~AllWithin(f, h[f]) }

\* C19 as stated: a range violation is reported only for a payload whose
\* lengths agree; a payload with both mismatched lengths and an out-of-range
\* value fails with the length mismatch and no range violation.
C19_LengthsBeforeRanges ==
    Built("HourlyData") =>
        LET h == kwargs.hourly
        IN  /\ (\E k \in 1..Len(result.errors) : IsRangeError(result.errors[k]))
                   => Cardinality(Lengths(h)) = 1
            /\ (Cardinality(Lengths(h)) # 1 /\ Offending(h) # {}) =>
                   /\ ~result.ok
                   /\ CitesLengths(result.errors, Lengths(h))
                   /\ \A k \in 1..Len(result.errors) : ~IsRangeError(result.errors[k])

\* C19 amended: a length mismatch is reported only for a payload all of whose
\* metric values are in range; a payload with both mismatched lengths and an
\* out-of-range value fails with one range violation for each offending metric
\* and no length mismatch.
C19_RangesBeforeLengths ==
    Built("HourlyData") =>
        LET h == kwargs.hourly
        IN  /\ (\E k \in 1..Len(result.errors) : IsLengthError(result.errors[k]))
                   => Offending(h) = {}
            /\ (Cardinality(Lengths(h)) # 1 /\ Offending(h) # {}) =>
                   /\ ~result.ok
                   /\ IsNone(result.model)
                   /\ Len(result.errors) = Cardinality(Offending(h))
                   /\ \A k \in 1..Len(result.errors) :
                          /\ IsRangeError(result.errors[k])
                          /\ ~IsLengthError(result.errors[k])
                          /\ result.errors[k].loc[1] \in Offending(h)

\* Mismatched lengths together with an out-of-range temperature: the failure
\* reports the temperature and nothing about the lengths.
C19_Witness ==
    /\ Built("HourlyData")
    /\ Cardinality(Lengths(kwargs.hourly)) = 2
    /\ Offending(kwargs.hourly) = {"temperature_2m"}
    /\ Len(result.errors) = 1
    /\ IsRangeError(result.errors[1])
    /\ result.errors[1].loc = <<"temperature_2m">>

\* The fields of the payload that violate their check.
Violating(p) ==
    { <<"hourly", f>> : f \in Offending(p.hourly) }
    \cup (IF -90 <= p.latitude /\ p.latitude <= 90 THEN {} ELSE { <<"latitude">> })
    \cup (IF -180 <= p.longitude /\ p.longitude <= 180 THEN {} ELSE { <<"longitude">> })
    \cup (IF p.timezone = "GMT" THEN {} ELSE { <<"timezone">> })
    \cup (IF p.timezone_abbreviation = "GMT" THEN {} ELSE { <<"timezone_abbreviation">> })

\* C20: for a payload whose sequences have one length, the failure lists
\* exactly one violation for each field that violates its check (each metric
\* out of range, each coordinate out of bounds, each timezone field that is
\* not GMT) and none for the other fields, and validate_data logs each of
\* them; whatever the payload, no model is produced exactly when the list of
\* violations is not empty.
C20_EveryViolationListed ==
    Built("WeatherAPIResponse") =>
        /\ result.ok <=> result.errors = << >>
        /\ ~result.ok <=> IsNone(result.model)
        /\ IsNone(validate_data(kwargs)) => result.errors # << >>
        /\ Cardinality(Lengths(kwargs.hourly)) = 1 =>
               /\ \A loc \in Violating(kwargs) :
                      Cardinality({ k \in 1..Len(result.errors) :
                                        result.errors[k].loc = loc }) = 1
               /\ \A k \in 1..Len(result.errors) : result.errors[k].loc \in Violating(kwargs)
               /\ Len(result.errors) = Cardinality(Violating(kwargs))
               /\ ~result.ok => Len(validate_log(kwargs)) = Len(result.errors) + 1

\* Latitude out of bounds, timezone not GMT, wind speed and precipitation out
\* of range, all in one payload: four violations listed.
C20_Witness ==
    /\ Built("WeatherAPIResponse")
    /\ Violating(kwargs) = { <<"latitude">>, <<"timezone">>,
                             <<"hourly", "wind_speed_10m">>, <<"hourly", "precipitation">> }
    /\ Len(result.errors) = 4
    /\ IsNone(result.model)
(***************************************************************************)
(* The steps of one location and the sequence of locations.                 *)
(***************************************************************************)
\* Where an event stands among the steps of its location.
StepRank(op) ==
    CASE op \in {"get", "backoff_sleep"} -> 1
      [] op = "validate"                 -> 2
      [] op = "save"                     -> 3
      [] op = "stored"                   -> 4
      [] op = "pace_sleep"               -> 5

\* Event b directly follows event a in the history.  Within a location a GET
\* follows only a backoff sleep of the same call of fetch_api_with_retry,
\* validate follows a GET, save follows validate, stored follows save; the
\* first GET of the next location follows only a location that is done
\* (stored, paused) or failed (no answer, or an answer that did not validate).
MayFollow(a, b) ==
    IF a.city = b.city
    THEN /\ StepRank(a.op) <= StepRank(b.op)
         /\ b.op = "get"           => (a.op = "backoff_sleep" /\ b.arg > 1)
         /\ b.op = "backoff_sleep" => a.op = "get"
         /\ b.op = "validate"      => a.op = "get"
         /\ b.op = "save"          => a.op = "validate"
         /\ b.op = "stored"        => a.op = "save"
         /\ b.op = "pace_sleep"    => a.op = "stored"
    ELSE /\ b.city = a.city + 1
         /\ b.op = "get"
         /\ b.arg = 1
         /\ \/ a.op \in {"stored", "pace_sleep"} /\ upstream[a.city] = "valid"
            \/ a.op = "validate" /\ upstream[a.city] = "invalid"
            \/ a.op = "get" /\ upstream[a.city] = "exhausts"

\* The calls of fetch_api_with_retry made for location i: each call opens
\* with its GET number 1.
FetchCalls(i) ==
    { n \in 1..Len(trace) :
        trace[n].op = "get" /\ trace[n].city = i /\ trace[n].arg = 1 }

\* The history opens with the first GET of the first location, and each event
\* may follow the one before it.  A step appends at most two events, so every
\* event is among the last two of the history in some state: those are the
\* ones looked at.
StepsInOrder ==
    /\ Len(trace) >= 1 =>
           (trace[1].op = "get" /\ trace[1].city = 1 /\ trace[1].arg = 1)
    /\ \A n \in 1..(Len(trace) - 1) :
           n >= Len(trace) - 2 => MayFollow(trace[n], trace[n + 1])

\* Over a whole run, however it ended: one call of fetch_api_with_retry for
\* each location reached, none for the others.
OneFetchPerLocation ==
    MainEnded =>
        /\ \A i \in 1..Len(CITIES) :
               /\ i <= city_ix => Cardinality(FetchCalls(i)) = 1
               /\ i > city_ix  => ~Happened("get", i)
        /\ pc = "returned" => city_ix = Len(CITIES)

\* At any moment: fetch_api_with_retry has been called once for each location
\* reached, it is not running while a payload is validated or saved, and the
\* call for a location starts with every location before it counted as a
\* success or as a failure.
OneLocationAtATime ==
    /\ pc \notin {"idle", "start"} => Len(upstream) = city_ix
    /\ pc \in {"validate", "save", "pace", "loop"} => fpc = "idle"
    /\ (pc = "fetching" /\ fpc = "attempt" /\ attempt = 0) =>
           success_count + failure_count = city_ix - 1

\* C21: in a run of main() the steps of a location occur only in the order
\* fetch, validate, save; fetch_api_with_retry is called exactly once for each
\* location the run processes, a failed validation being followed by no GET,
\* no backoff and no other step of that location; and the first GET of a
\* location is issued only after the location before it was stored or failed,
\* so that the steps of two locations never interleave.
C21_StepsInOrder == [](StepsInOrder /\ OneFetchPerLocation /\ OneLocationAtATime)

\* A run that returned after a first location whose payload failed validation
\* and a second one that was stored: one GET for the first, nothing after its
\* validate.
C21_Witness ==
    /\ pc = "returned"
    /\ upstream = <<"invalid", "valid">>
    /\ Count("get", 1) = 1
    /\ Count("validate", 1) = 1
    /\ Count("save", 1) = 0
    /\ Happened("stored", 2)
(***************************************************************************)
(* The counters of main.                                                    *)
(***************************************************************************)
\* The locations stored so far.
StoredLocations == { i \in 1..Len(CITIES) : Happened("stored", i) }

\* Between two iterations (and while pausing after a save) every location
\* reached has been counted, once, as a success when it was stored and as a
\* failure otherwise; inside an iteration the current location is not counted
\* yet; success_count is the number of calls of save_raw_data that returned.
CountersMatch ==
    /\ success_count = Len(sink)
    /\ pc \in {"loop", "pace", "returned"} =>
           /\ success_count + failure_count = city_ix
           /\ success_count = Cardinality(StoredLocations)
           /\ failure_count = Cardinality((1..city_ix) \ StoredLocations)
    /\ pc \in {"fetching", "validate", "save"} =>
           success_count + failure_count = city_ix - 1
    /\ pc = "returned" =>
           /\ Get(summary).success_count = success_count
           /\ Get(summary).failure_count = failure_count
           /\ success_count + failure_count = Len(CITIES)
           /\ Len(Get(summary).cities_processed) = Len(CITIES)

\* One step: no counter decreases, at most one of them moves, by one, and it
\* moves in the step that ends the processing of the current location.
CountersStep ==
    /\ success_count' \in {success_count, success_count + 1}
    /\ failure_count' \in {failure_count, failure_count + 1}
    /\ ~(success_count' # success_count /\ failure_count' # failure_count)
    /\ (success_count' # success_count \/ failure_count' # failure_count) =>
           /\ pc \in {"fetching", "validate", "save"}
           /\ pc' \in {"loop", "pace"}
           /\ city_ix' = city_ix

\* C22: in main() success_count + failure_count equals the number of
\* locations processed whenever an iteration of the loop has ended, each
\* location increments exactly one of the two counters and does so once,
\* success_count equals the number of save_raw_data calls that returned, and a
\* summary that main() returns has success_count + failure_count = len(CITIES)
\* = the length of cities_processed.
C22_CountersAddUp == [](CountersMatch) /\ [][CountersStep]_vars

\* A run over two locations that returned with one success and one failure.
C22_Witness ==
    /\ pc = "returned"
    /\ Len(CITIES) = 2
    /\ Get(summary).success_count = 1
    /\ Get(summary).failure_count = 1
    /\ Len(sink) = 1
====
